---- MODULE Spec2Model ----
(***************************************************************************)
(* Model of pythonx/clap/fuzzymatch-rs/src/lib.rs: the substring scorer    *)
(* substr_scorer and the ranking pipeline fuzzy_match.                     *)
(*                                                                         *)
(* A Rust String is modelled as the sequence of its UTF-8 bytes, so byte   *)
(* offsets, slicing and the byte length of a lower-cased string are what   *)
(* they are in the program.  An f64 is modelled as an exact rational       *)
(* [nan, n, d] (d > 0, lowest terms) or NaN; rounding is not modelled.     *)
(***************************************************************************)
EXTENDS Integers, Sequences, FiniteSets, TLC

\* ------------------------------------------------------------------ bounds

\* Longest query (in characters) given to substr_scorer on its own.
MaxNiddleLen == 3
\* Longest line (in characters) given to substr_scorer on its own.
MaxHaystackLen == 3

\* ----------------------------------------------------------------- strings

\* UTF-8 encodings of the characters the inputs are built from.
CharLowerA == <<97>>
CharLowerB == <<98>>
CharUpperA == <<65>>
CharSpace == <<32>>
CharTab == <<9>>
\* U+0130 LATIN CAPITAL LETTER I WITH DOT ABOVE: two bytes; its lower case
\* is U+0069 U+0307, three bytes.
CharIDot == <<196, 176>>
LowerIDot == <<105, 204, 135>>

RECURSIVE StrsUpTo(_, _)
\* Every string of at most n characters drawn from chars.
StrsUpTo(chars, n) ==
    IF n = 0 THEN {<< >>}
    ELSE LET S == StrsUpTo(chars, n - 1)
         IN  S \cup {s \o c : s \in S, c \in chars}

None == [some |-> FALSE]
Some(v) == [some |-> TRUE, val |-> v]

\* char::is_whitespace on the one-byte characters: U+0009..U+000D, U+0020.
IsWhitespace(b) == b \in 9..13 \/ b = 32

RECURSIVE to_lowercase(_)
\* str::to_lowercase: ASCII upper case maps to lower case (same length),
\* U+0130 maps to U+0069 U+0307 (one byte longer), other characters stay.
to_lowercase(s) ==
    IF s = << >> THEN << >>
    ELSE IF s[1] \in 65..90 THEN <<s[1] + 32>> \o to_lowercase(Tail(s))
    ELSE IF Len(s) >= 2 /\ s[1] = 196 /\ s[2] = 176
         THEN LowerIDot \o to_lowercase(SubSeq(s, 3, Len(s)))
    ELSE <<s[1]>> \o to_lowercase(Tail(s))

RECURSIVE SplitFrom(_, _)
SplitFrom(s, cur) ==
    IF s = << >> THEN (IF cur = << >> THEN << >> ELSE <<cur>>)
    ELSE IF IsWhitespace(s[1])
         THEN (IF cur = << >> THEN << >> ELSE <<cur>>) \o SplitFrom(Tail(s), << >>)
    ELSE SplitFrom(Tail(s), Append(cur, s[1]))

\* str::split_whitespace: the maximal runs of non-whitespace, in order.
split_whitespace(s) == SplitFrom(s, << >>)

\* str::contains(' ')
contains_space(s) == \E k \in 1..Len(s) : s[k] = 32

\* str::find: the least 0-based byte offset at which pat occurs in s.
str_find(s, pat) ==
    LET hits == {i \in 0..(Len(s) - Len(pat)) : SubSeq(s, i + 1, i + Len(pat)) = pat}
    IN  IF hits = {} THEN None
        ELSE Some(CHOOSE i \in hits : \A j \in hits : i <= j)

\* Mutant: the search restarts at the beginning of the line.
find_from_line_start(slice, at, pat) == str_find(slice, pat)

\* slice[at..].find(pat).map(|i| at + i)
find_start_at(slice, at, pat) ==
    LET r == str_find(SubSeq(slice, at + 1, Len(slice)), pat)
    IN  IF r.some THEN Some(at + r.val) ELSE None

\* --------------------------------------------------------------------- f64

RECURSIVE Gcd(_, _)
Gcd(a, b) == IF b = 0 THEN a ELSE Gcd(b, a % b)

Abs(x) == IF x < 0 THEN -x ELSE x

\* The rational n/d (d > 0) in lowest terms.
Rat(n, d) ==
    LET g == Gcd(Abs(n), d)
    IN  [nan |-> FALSE, n |-> n \div g, d |-> d \div g]

NaN == [nan |-> TRUE, n |-> 0, d |-> 1]

FromInt(k) == Rat(k, 1)
FDiv(a, b) == Rat(a.n * b.d, a.d * b.n)
FAdd(a, b) == Rat(a.n * b.d + b.n * a.d, a.d * b.d)
FSub(a, b) == Rat(a.n * b.d - b.n * a.d, a.d * b.d)

\* f64::partial_cmp: None when either side is NaN.
partial_cmp(a, b) ==
    IF a.nan \/ b.nan THEN None
    ELSE IF a.n * b.d < b.n * a.d THEN Some("Less")
    ELSE IF a.n * b.d > b.n * a.d THEN Some("Greater")
    ELSE Some("Equal")

\* ----------------------------------------------------------- substr_scorer

\* Mutant: the closure returns pos after the increment.
TermPositionsAfterIncrement(idx, n) == [k \in 1..n |-> idx + k]

\* The offsets idx, idx+1, ..., idx+n-1 that resize_with appends.
TermPositions(idx, n) == [k \in 1..n |-> idx + k - 1]

RECURSIVE ScanTerms(_, _, _, _)
\* The for loop of substr_scorer over the remaining terms.
ScanTerms(haystack, terms, offset, positions) ==
    IF terms = << >> THEN Some(positions)
    ELSE LET sub_niddle == to_lowercase(Head(terms))
             found == find_start_at(haystack, offset, sub_niddle)
         IN  IF found.some
             THEN ScanTerms(haystack, Tail(terms),
                            found.val + Len(sub_niddle),
                            positions \o TermPositions(found.val, Len(sub_niddle)))
             ELSE None

\* Mutant: the span without its + 1.
MatchLenNoPlusOne(positions) == positions[Len(positions)] - positions[1]

\* match_len = last_pos + 1 - positions[0]
MatchLen(positions) == positions[Len(positions)] + 1 - positions[1]

\* 2/(positions[0]+1) + 1/(last_pos+1) - match_len
SubstrScore(positions) ==
    LET last_pos == positions[Len(positions)]
    IN  FSub(FAdd(FDiv(FromInt(2), FromInt(positions[1] + 1)),
                  FDiv(FromInt(1), FromInt(last_pos + 1))),
             FromInt(MatchLen(positions)))

MatchNone == [some |-> FALSE, score |-> FromInt(0), positions |-> << >>]
MatchSome(score, positions) == [some |-> TRUE, score |-> score, positions |-> positions]

\* Mutant: no early return for an empty position list; the match is refused.
substr_scorer_no_empty_case(niddle_, haystack_) ==
    LET scan == ScanTerms(to_lowercase(haystack_), split_whitespace(niddle_), 0, << >>)
    IN  IF ~scan.some \/ scan.val = << >> THEN MatchNone
        ELSE MatchSome(SubstrScore(scan.val), scan.val)

substr_scorer(niddle_, haystack_) ==
    LET scan == ScanTerms(to_lowercase(haystack_), split_whitespace(niddle_), 0, << >>)
    IN  IF ~scan.some THEN MatchNone
        ELSE IF scan.val = << >> THEN MatchSome(FromInt(0), << >>)
        ELSE MatchSome(SubstrScore(scan.val), scan.val)

\* ------------------------------------------------------------ fuzzy_match

\* Bounds of the inputs of fuzzy_match.
\* Longest query, in characters.
MaxQueryLen == 2
\* Longest candidate line, in characters, not counting the icon block.
MaxLineLen == 2
\* Most candidates in one call.
MaxCandidates == 2

\* `&line[4..]` and `x + 4`: the byte length of the icon block.
IconLen == 4
\* `Some(2)`: the display columns of the icon, handed to the truncation.
IconColumns == 2

\* The icon block: a three-byte glyph (U+F0F6) and a space.
IconBlock == <<239, 131, 182, 32>>

\* &line[at..]
SliceFrom(line, at) == SubSeq(line, at + 1, Len(line))

\* The scores the external fuzzy scorer may report, after `score as f64`.
FzyScores == {FromInt(-1), FromInt(3), FromInt(5), NaN}

\* The position lists the external fuzzy scorer may report for `text`:
\* ascending byte offsets into the text it was given.
FzyPositions(text) ==
    {<< >>} \cup {<<p>> : p \in 0..(Len(text) - 1)}
            \cup (IF Len(text) >= 2 THEN {<<0, Len(text) - 1>>} ELSE {})

\* The external single-term fuzzy scorer, a black box (line, query) ->
\* Option<(score, positions)>.  An empty query matches with no positions; a
\* non-empty query that the line contains gives a non-empty match.
FzyOutcomes(text, q) ==
    LET matches == {MatchSome(s, ps) : s \in FzyScores, ps \in FzyPositions(text)}
    IN  IF q = << >> THEN {m \in matches : m.positions = << >>}
        ELSE IF str_find(text, q).some THEN {m \in matches : m.positions # << >>}
        ELSE matches \cup {MatchNone}

\* Mutant: the shift is the icon's two display columns.
ShiftPositionsByColumns(indices) == [k \in 1..Len(indices) |-> indices[k] + IconColumns]

\* Mutant: the shift is one too many.
ShiftPositionsOffByOne(indices) == [k \in 1..Len(indices) |-> indices[k] + IconLen + 1]

\* indices.into_iter().map(|x| x + 4).collect()
ShiftPositions(indices) == [k \in 1..Len(indices) |-> indices[k] + IconLen]

\* The text the fuzzy branch of the matcher hands to the external scorer.
FzyText(line, icon) == IF icon THEN SliceFrom(line, IconLen) ELSE line

\* What the fuzzy branch of the matcher returns for the scorer's result.
FzyReturn(ret, icon) ==
    IF ~ret.some THEN MatchNone
    ELSE IF icon THEN MatchSome(ret.score, ShiftPositions(ret.positions))
    ELSE MatchSome(ret.score, ret.positions)

\* Mutant: any whitespace chooses the substring scorer.
ChooseMatcherByWhitespace(q) ==
    IF \E k \in 1..Len(q) : IsWhitespace(q[k]) THEN "substr" ELSE "fzy"

\* query.contains(' ') chooses the matcher.
ChooseMatcher(q) == IF contains_space(q) THEN "substr" ELSE "fzy"

Row(line, score, indices) == [line |-> line, score |-> score, indices |-> indices]

\* Mutant: the comparator's operands the other way round.
CompareRowsAscending(r1, r2) == partial_cmp(r1.score, r2.score)

\* Mutant: a NaN compares equal instead of panicking.
CompareRowsNaNEqual(r1, r2) ==
    IF r1.score.nan \/ r2.score.nan THEN Some("Equal")
    ELSE partial_cmp(r2.score, r1.score)

\* The comparator given to sort_unstable_by: v2.partial_cmp(v1).
CompareRows(r1, r2) == partial_cmp(r2.score, r1.score)

RECURSIVE InsertRow(_, _)
\* One insertion of the insertion sort sort_unstable_by runs on a short
\* slice; None when the comparator's unwrap panics.
InsertRow(sorted, row) ==
    IF sorted = << >> THEN Some(<<row>>)
    ELSE LET last == sorted[Len(sorted)]
             c == CompareRows(row, last)
         IN  IF ~c.some THEN None
             ELSE IF c.val = "Less"
                  THEN LET rest == InsertRow(SubSeq(sorted, 1, Len(sorted) - 1), row)
                       IN  IF rest.some THEN Some(Append(rest.val, last)) ELSE None
             ELSE Some(Append(sorted, row))

RECURSIVE SortFrom(_, _)
SortFrom(sorted, rows) ==
    IF rows = << >> THEN Some(sorted)
    ELSE LET ins == InsertRow(sorted, Head(rows))
         IN  IF ins.some THEN SortFrom(ins.val, Tail(rows)) ELSE None

\* ranked.sort_unstable_by(...): the sorted rows, or None for a panic.
SortRanked(rows) == SortFrom(<< >>, rows)

\* The width budget of the truncation: two columns less with icons.
EffectiveWidth(width, icon) == IF icon THEN width - IconColumns ELSE width

RECURSIVE KeepPositions(_, _, _)
\* The positions inside the window [lo, hi), in order, relative to lo.
KeepPositions(ps, lo, hi) ==
    IF ps = << >> THEN << >>
    ELSE IF Head(ps) >= lo /\ Head(ps) < hi
         THEN <<Head(ps) - lo>> \o KeepPositions(Tail(ps), lo, hi)
    ELSE KeepPositions(Tail(ps), lo, hi)

\* The external truncation of one row to w bytes: the head or the tail of
\* the text is kept; the positions inside the kept window are re-expressed
\* relative to it and the others are dropped.
TruncateRow(row, w, strategy) ==
    IF Len(row.line) <= w THEN row
    ELSE IF strategy = "head"
         THEN Row(SubSeq(row.line, 1, w), row.score, KeepPositions(row.indices, 0, w))
    ELSE Row(SubSeq(row.line, Len(row.line) - w + 1, Len(row.line)), row.score,
             KeepPositions(row.indices, Len(row.line) - w, Len(row.line)))

\* HashMap::insert
MapInsert(map, k, v) == [x \in (DOMAIN map) \cup {k} |-> IF x = k THEN v ELSE map[x]]

EmptyMap == [x \in {} |-> << >>]

RECURSIVE TruncatedMapOf(_, _, _, _)
\* The reverse map the external truncation builds: one insert per shortened
\* row, in ranked order, keyed by the shortened text.
TruncatedMapOf(rows, shown, k, map) ==
    IF k > Len(rows) THEN map
    ELSE TruncatedMapOf(rows, shown, k + 1,
            IF shown[k].line # rows[k].line
            THEN MapInsert(map, shown[k].line, rows[k].line)
            ELSE map)

\* Mutant: the pairs are collected value first.
CollectMapSwapped(map) ==
    [v \in {map[k] : k \in DOMAIN map} |-> CHOOSE k \in DOMAIN map : map[k] = v]

\* truncated_map.into_iter().map(|(k, v)| (k.to_string(), v)).collect()
CollectMap(map) == [k \in DOMAIN map |-> map[k]]

\* The loop that splits the rows into indices and filtered.
CollectIndices(rows) == [k \in 1..Len(rows) |-> rows[k].indices]
CollectFiltered(rows) == [k \in 1..Len(rows) |-> rows[k].line]

NoOutput == [indices |-> << >>, filtered |-> << >>, map |-> EmptyMap]

VARIABLES query, candidates, winwidth, enable_icon,
          pc, matcher, calls, ranked, lines, truncated_map, output

pvars == <<query, candidates, winwidth, enable_icon,
           pc, matcher, calls, ranked, lines, truncated_map, output>>

QueryChars == {CharLowerA, CharIDot, CharSpace, CharTab}
LineChars == {CharLowerA, CharIDot}

\* A width under which no candidate is shortened.
WideWidth == IconLen + 3 * MaxLineLen + IconColumns

\* The widths of the calls: one that shortens every line with an icon and the
\* longer lines without, one that shortens only the longer lines with an icon.
Widths == {IconColumns, IconLen + MaxLineLen + 1}

\* The candidate lines: with icons enabled each starts with the icon block.
LinePool(icon) ==
    {(IF icon THEN IconBlock ELSE << >>) \o body : body \in StrsUpTo(LineChars, MaxLineLen)}

SeqsUpTo(S, n) == UNION {[1..k -> S] : k \in 0..n}

PipelineIdle ==
    /\ query = << >> /\ candidates = << >> /\ winwidth = 0 /\ enable_icon = FALSE
    /\ pc = "idle" /\ matcher = "none" /\ calls = << >> /\ ranked = << >>
    /\ lines = << >> /\ truncated_map = EmptyMap /\ output = NoOutput

\* let matcher = if query.contains(' ') { substr } else { fzy };
SelectMatcher ==
    /\ pc = "start"
    /\ matcher' = ChooseMatcher(query)
    /\ pc' = "score"
    /\ UNCHANGED <<query, candidates, winwidth, enable_icon, calls, ranked,
                   lines, truncated_map, output>>

\* What filter_map does with the matcher's result for one candidate.
KeepMatch(line, m) ==
    IF m.some THEN Append(ranked, Row(line, m.score, m.positions)) ELSE ranked

\* filter_map over the next candidate, substring matcher.
ScoreSubstr ==
    /\ pc = "score" /\ matcher = "substr"
    /\ Len(calls) < Len(candidates)
    /\ LET line == candidates[Len(calls) + 1]
           m == substr_scorer(query, line)
       IN  /\ calls' = Append(calls, [fn |-> "substr", arg |-> line, ret |-> m])
           /\ ranked' = KeepMatch(line, m)
    /\ UNCHANGED <<query, candidates, winwidth, enable_icon, pc, matcher,
                   lines, truncated_map, output>>

\* filter_map over the next candidate, fuzzy matcher.  The external scorer is
\* a function: a text it has seen gets the result it got before.
ScoreFzy ==
    /\ pc = "score" /\ matcher = "fzy"
    /\ Len(calls) < Len(candidates)
    /\ LET line == candidates[Len(calls) + 1]
           text == FzyText(line, enable_icon)
           seen == {k \in 1..Len(calls) : calls[k].arg = text}
       IN  \E ret \in FzyOutcomes(text, query) :
              /\ \A k \in seen : calls[k].ret = ret
              /\ calls' = Append(calls, [fn |-> "fzy", arg |-> text, ret |-> ret])
              /\ ranked' = KeepMatch(line, FzyReturn(ret, enable_icon))
    /\ UNCHANGED <<query, candidates, winwidth, enable_icon, pc, matcher,
                   lines, truncated_map, output>>

\* ranked.sort_unstable_by(|(_, v1, _), (_, v2, _)| v2.partial_cmp(v1).unwrap())
Sort ==
    /\ pc = "score"
    /\ Len(calls) = Len(candidates)
    /\ LET sorted == SortRanked(ranked)
       IN  IF sorted.some
           THEN ranked' = sorted.val /\ pc' = "truncate"
           ELSE ranked' = ranked /\ pc' = "panicked"
    /\ UNCHANGED <<query, candidates, winwidth, enable_icon, matcher, calls,
                   lines, truncated_map, output>>

\* truncate_long_matched_lines(ranked, winwidth, skipped)
Truncate ==
    /\ pc = "truncate"
    /\ \E strategy \in {"head", "tail"} :
          LET w == EffectiveWidth(winwidth, enable_icon)
              shown == [k \in 1..Len(ranked) |-> TruncateRow(ranked[k], w, strategy)]
          IN  /\ lines' = shown
              /\ truncated_map' = TruncatedMapOf(ranked, shown, 1, EmptyMap)
    /\ pc' = "collect"
    /\ UNCHANGED <<query, candidates, winwidth, enable_icon, matcher, calls,
                   ranked, output>>

\* The loop over lines and the returned triple.
Collect ==
    /\ pc = "collect"
    /\ output' = [indices |-> CollectIndices(lines),
                  filtered |-> CollectFiltered(lines),
                  map |-> CollectMap(truncated_map)]
    /\ pc' = "done"
    /\ UNCHANGED <<query, candidates, winwidth, enable_icon, matcher, calls,
                   ranked, lines, truncated_map>>

\* ------------------------------------------------- substr_scorer on its own


VARIABLES niddle, haystack, scored, spc

svars == <<niddle, haystack, scored, spc>>

vars == <<pvars, svars>>

ScorerIdle == niddle = << >> /\ haystack = << >> /\ scored = MatchNone /\ spc = "idle"

NiddleChars == {CharLowerA, CharLowerB, CharUpperA, CharSpace, CharTab, CharIDot}
HaystackChars == {CharLowerA, CharLowerB, CharUpperA, CharIDot}

\* The inputs of the test py_and_rs_subscore_should_work, and the same line
\* with the terms of the first query in the other order.
TestHaystack ==
    <<115, 117, 98, 115, 116, 114, 95, 115, 99, 111, 114, 101, 114, 95,
      115, 104, 111, 117, 108, 100, 95, 119, 111, 114, 107>>
QuerySuOu == <<115, 117, 32, 111, 117>>
QuerySuOrk == <<115, 117, 32, 111, 114, 107>>
QueryOuSu == <<111, 117, 32, 115, 117>>
TestCases == {<<QuerySuOu, TestHaystack>>, <<QuerySuOrk, TestHaystack>>,
              <<QueryOuSu, TestHaystack>>}

InitScorer ==
    /\ \E input \in (StrsUpTo(NiddleChars, MaxNiddleLen)
                        \X StrsUpTo(HaystackChars, MaxHaystackLen)) \cup TestCases :
          niddle = input[1] /\ haystack = input[2]
    /\ scored = MatchNone
    /\ spc = "call"
    /\ PipelineIdle

CallSubstrScorer ==
    /\ spc = "call"
    /\ scored' = substr_scorer(niddle, haystack)
    /\ spc' = "returned"
    /\ UNCHANGED <<niddle, haystack>>
    /\ UNCHANGED pvars

NextScorer == CallSubstrScorer

SpecScorer == InitScorer /\ [][NextScorer]_vars

\* ------------------------------------------------------- fuzzy_match calls

Init ==
    /\ query \in StrsUpTo(QueryChars, MaxQueryLen)
    /\ enable_icon \in BOOLEAN
    /\ candidates \in SeqsUpTo(LinePool(enable_icon), MaxCandidates)
    /\ winwidth \in Widths
    /\ pc = "start" /\ matcher = "none" /\ calls = << >> /\ ranked = << >>
    /\ lines = << >> /\ truncated_map = EmptyMap /\ output = NoOutput
    /\ ScorerIdle

Next ==
    \/ (SelectMatcher /\ UNCHANGED svars)
    \/ (ScoreSubstr /\ UNCHANGED svars)
    \/ (ScoreFzy /\ UNCHANGED svars)
    \/ (Sort /\ UNCHANGED svars)
    \/ (Truncate /\ UNCHANGED svars)
    \/ (Collect /\ UNCHANGED svars)

Spec == Init /\ [][Next]_vars

\* --------------------------------------- fuzzy_match calls, more candidates

\* Most candidates in a call when short lines are ranked.
MaxRankCandidates == 3

\* The lines of those calls: the empty line and the lines of one character.
RankPool(icon) ==
    {(IF icon THEN IconBlock ELSE << >>) \o body : body \in {<< >>} \cup LineChars}

\* Calls with up to MaxRankCandidates short candidates and a width that
\* shortens none of them.
InitRank ==
    /\ query \in {<< >>} \cup QueryChars
    /\ enable_icon \in BOOLEAN
    /\ candidates \in SeqsUpTo(RankPool(enable_icon), MaxRankCandidates)
    /\ winwidth = WideWidth
    /\ pc = "start" /\ matcher = "none" /\ calls = << >> /\ ranked = << >>
    /\ lines = << >> /\ truncated_map = EmptyMap /\ output = NoOutput
    /\ ScorerIdle

SpecRank == InitRank /\ [][Next]_vars

\* ------------------------------------------------ properties: substr_scorer

\* The lower-cased terms of a query, in order.
Terms(q) == LET ts == split_whitespace(q) IN [i \in 1..Len(ts) |-> to_lowercase(ts[i])]

\* Term t occurs in hay at byte offset j.
OccursAt(hay, j, t) == j + Len(t) <= Len(hay) /\ SubSeq(hay, j + 1, j + Len(t)) = t

\* The cursor before term i: 0, then one past the previous term's match.
CursorBefore(starts, terms, i) ==
    IF i = 1 THEN 0 ELSE starts[i - 1] + Len(terms[i - 1])

\* The assignments of a start to every term in which each start is the first
\* occurrence of its term at or after the cursor.
MonotoneStarts(hay, terms) ==
    {st \in [1..Len(terms) -> 0..Len(hay)] :
        \A i \in 1..Len(terms) :
            /\ st[i] >= CursorBefore(st, terms, i)
            /\ OccursAt(hay, st[i], terms[i])
            /\ \A j \in CursorBefore(st, terms, i)..(st[i] - 1) : ~OccursAt(hay, j, terms[i])}

RECURSIVE RangesFrom(_, _, _)
\* The ranges [st[i], st[i] + Len(terms[i])) of the terms i, i+1, ..., joined.
RangesFrom(st, terms, i) ==
    IF i > Len(terms) THEN << >>
    ELSE [k \in 1..Len(terms[i]) |-> st[i] + k - 1] \o RangesFrom(st, terms, i + 1)

RECURSIVE SumLen(_)
SumLen(terms) == IF terms = << >> THEN 0 ELSE Len(Head(terms)) + SumLen(Tail(terms))

StrictlyAscending(ps) == \A k \in 1..(Len(ps) - 1) : ps[k] < ps[k + 1]

\* C1: substr_scorer matches exactly when every term, in query order, occurs
\* in the lower-cased line at or after the cursor, taking the first such
\* occurrence and moving the cursor one past it; the positions returned are
\* those of that assignment.  Terms that all occur, but not in this order, do
\* not match.
C1_LeftToRightSearch ==
    spc = "returned" =>
        LET starts == MonotoneStarts(to_lowercase(haystack), Terms(niddle))
        IN  /\ scored.some <=> starts # {}
            /\ scored.some =>
                 \E st \in starts : scored.positions = RangesFrom(st, Terms(niddle), 1)

\* Two terms that both occur in the line, the second only before the first:
\* no match.
C1_WitnessOutOfOrder ==
    /\ spc = "returned"
    /\ ~scored.some
    /\ Len(Terms(niddle)) = 2
    /\ \A i \in 1..2 : str_find(to_lowercase(haystack), Terms(niddle)[i]).some

\* The part of C2 that does not depend on the line's own length: the positions
\* are strictly ascending, are one contiguous range per term joined in term
\* order, the ranges do not overlap, and there are as many positions as the
\* terms have bytes.
PositionsAreTermRanges ==
    LET terms == Terms(niddle)
    IN  /\ StrictlyAscending(scored.positions)
        /\ Len(scored.positions) = SumLen(terms)
        /\ \E st \in [1..Len(terms) -> 0..Len(to_lowercase(haystack))] :
              /\ scored.positions = RangesFrom(st, terms, 1)
              /\ \A i \in 1..(Len(terms) - 1) : st[i] + Len(terms[i]) <= st[i + 1]

\* C2 as amended: on a match the positions are strictly ascending term ranges
\* and every position is a byte offset into the LOWER-CASED line.
C2_PositionsInLowercasedLine ==
    (spc = "returned" /\ scored.some) =>
        /\ PositionsAreTermRanges
        /\ \A k \in 1..Len(scored.positions) :
              scored.positions[k] < Len(to_lowercase(haystack))

\* C2 as stated: ... and every position is a byte offset into the candidate
\* line, less than the line's length.
C2_PositionsInCandidateLine ==
    (spc = "returned" /\ scored.some) =>
        /\ PositionsAreTermRanges
        /\ \A k \in 1..Len(scored.positions) : scored.positions[k] < Len(haystack)

\* A match of two terms on a line that lower-casing makes longer.
C2_WitnessTwoTermsLongerLowercase ==
    /\ spc = "returned"
    /\ scored.some
    /\ Len(Terms(niddle)) = 2
    /\ \E k \in 1..Len(scored.positions) : scored.positions[k] >= Len(haystack)

\* C3: for a match with at least one term the score is
\* 2/(first+1) + 1/(last+1) - (last-first+1), first and last being the ends of
\* the position list; for "su ou" on the test line that is 2/1 + 1/18 - 18.
C3_ScoreFormula ==
    (spc = "returned" /\ scored.some /\ scored.positions # << >>) =>
        LET first == scored.positions[1]
            last == scored.positions[Len(scored.positions)]
        IN  /\ ~scored.score.nan
            /\ scored.score.n * (first + 1) * (last + 1) =
                 scored.score.d * (2 * (last + 1) + (first + 1)
                                   - (last - first + 1) * (first + 1) * (last + 1))
            /\ (niddle = QuerySuOu /\ haystack = TestHaystack) =>
                 /\ scored.positions = <<0, 1, 16, 17>>
                 /\ scored.score = [nan |-> FALSE, n |-> -287, d |-> 18]

\* The test's first case has been scored.
C3_WitnessTestCase ==
    /\ spc = "returned"
    /\ niddle = QuerySuOu /\ haystack = TestHaystack
    /\ scored.some /\ Len(scored.positions) = 4

\* -------------------------------------------------- properties: fuzzy_match

Returned == pc = "done"
Sorted == pc \in {"truncate", "collect", "done"}

\* What the matcher returned for candidate k, from the log of the calls: the
\* substring scorer's result as it is, the fuzzy scorer's with its positions
\* moved by shift.
ReturnOf(k, shift) ==
    LET ret == calls[k].ret
    IN  [some |-> ret.some, score |-> ret.score,
         positions |-> [j \in 1..Len(ret.positions) |->
                           ret.positions[j] + (IF calls[k].fn = "fzy" THEN shift ELSE 0)]]

RECURSIVE KeptRows(_, _)
\* The rows of the candidates k, k+1, ... that matched, in candidate order.
KeptRows(k, shift) ==
    IF k > Len(calls) THEN << >>
    ELSE (IF calls[k].ret.some
          THEN <<[line |-> candidates[k], score |-> ReturnOf(k, shift).score,
                  indices |-> ReturnOf(k, shift).positions]>>
          ELSE << >>) \o KeptRows(k + 1, shift)

IconShift == IF enable_icon THEN 4 ELSE 0

Count(x, seq) == Cardinality({k \in 1..Len(seq) : seq[k] = x})

SameRows(a, b) ==
    /\ Len(a) = Len(b)
    /\ \A k \in 1..Len(a) : Count(a[k], a) = Count(a[k], b)

\* C4: a query with a space character has every candidate scored by
\* substr_scorer on the whole line, icons or not, with its positions kept as
\* they are, and the fuzzy scorer is never called; a query without one has
\* every candidate scored by the fuzzy scorer and substr_scorer is never called.
C4_MatcherBySpace ==
    /\ \A k \in 1..Len(calls) :
          IF \E j \in 1..Len(query) : query[j] = 32
          THEN calls[k].fn = "substr" /\ calls[k].arg = candidates[k]
          ELSE calls[k].fn = "fzy"
    /\ (pc = "score" /\ \E j \in 1..Len(query) : query[j] = 32) =>
          ranked = KeptRows(1, 0)
    /\ pc \notin {"start", "score", "idle"} => Len(calls) = Len(candidates)

\* A query with a space, icons enabled: a candidate matched behind its icon
\* and the call returned.
C4_WitnessSubstrWithIcon ==
    /\ Returned /\ enable_icon
    /\ \E j \in 1..Len(query) : query[j] = 32
    /\ \E k \in 1..Len(calls) : calls[k].ret.some /\ calls[k].ret.positions # << >>

\* C5: for a query without a space and icons enabled the fuzzy scorer is given
\* the line without its first 4 bytes and the positions kept are the scorer's
\* plus 4, one for one, with the score unchanged, so each is >= 4; with icons
\* disabled the scorer is given the whole line and its positions are kept.
C5_IconShift ==
    (\A j \in 1..Len(query) : query[j] # 32) =>
        /\ \A k \in 1..Len(calls) :
              /\ enable_icon =>
                    /\ Len(calls[k].arg) = Len(candidates[k]) - 4
                    /\ \A j \in 1..Len(calls[k].arg) : calls[k].arg[j] = candidates[k][j + 4]
              /\ ~enable_icon => calls[k].arg = candidates[k]
        /\ pc = "score" => ranked = KeptRows(1, IconShift)
        /\ enable_icon =>
              \A k \in 1..Len(ranked) : \A j \in 1..Len(ranked[k].indices) :
                  ranked[k].indices[j] >= 4

\* Icons enabled, no space in the query: a row with two shifted positions.
C5_WitnessShiftedRow ==
    /\ pc = "score" /\ enable_icon /\ matcher = "fzy"
    /\ \E k \in 1..Len(ranked) : Len(ranked[k].indices) = 2

NoNaNReturned == \A k \in 1..Len(calls) : ~calls[k].ret.score.nan

\* C6: when no score is NaN, the rows after the sort are the candidates that
\* matched, each once per occurrence with its own score and positions, a
\* candidate that did not match being dropped while the others are scored,
\* and the scores do not increase from one row to the next.
C6_RankedDescending ==
    (Sorted /\ NoNaNReturned) =>
        /\ Len(calls) = Len(candidates)
        /\ SameRows(ranked, KeptRows(1, IconShift))
        /\ \A k \in 1..(Len(ranked) - 1) :
              ranked[k].score.n * ranked[k + 1].score.d
                 >= ranked[k + 1].score.n * ranked[k].score.d

\* Candidates scored 3, -1 and 5 in this order are ranked 5, 3, -1.
C6_WitnessThreeScores ==
    /\ Sorted
    /\ Len(ranked) = 3 /\ Len(calls) = 3
    /\ [k \in 1..3 |-> calls[k].ret.score] = <<FromInt(3), FromInt(-1), FromInt(5)>>
    /\ [k \in 1..3 |-> ranked[k].score] = <<FromInt(5), FromInt(3), FromInt(-1)>>
    /\ [k \in 1..3 |-> ranked[k].line] = <<candidates[3], candidates[1], candidates[2]>>

HasNaNRow == \E k \in 1..Len(ranked) : ranked[k].score.nan

\* C7 as stated: with a NaN score among the kept rows fuzzy_match never gets
\* past the sort, whatever the number of rows.
C7_NaNAlwaysPanics == HasNaNRow => ~Sorted

\* C7 as amended: the sort panics exactly when a NaN score is among at least
\* two kept rows (the comparator runs only then), and a panicked call returns
\* nothing; a single kept row with a NaN score is returned.
C7_NaNPanicsWhenCompared ==
    /\ pc \in {"truncate", "collect", "done", "panicked"} =>
          (pc = "panicked" <=> (HasNaNRow /\ Len(ranked) >= 2))
    /\ pc = "panicked" => output = NoOutput /\ lines = << >>
    /\ pc = "panicked" => ~ENABLED Next

\* Two kept rows, one with a NaN score: the call has panicked.
C7_WitnessPanicked == pc = "panicked" /\ Len(ranked) = 2 /\ HasNaNRow

\* Row k's text is longer than the width budget, so the row was shortened.
Shortened(k) ==
    Len(ranked[k].line) > (IF enable_icon THEN winwidth - 2 ELSE winwidth)

\* The last shortened row, in ranked order, shown as text t.
LastShownAs(t) ==
    CHOOSE k \in 1..Len(ranked) :
        /\ Shortened(k) /\ output.filtered[k] = t
        /\ \A j \in (k + 1)..Len(ranked) : ~(Shortened(j) /\ output.filtered[j] = t)

C9_PositionsInsideReturnedText ==
    Returned =>
        /\ Len(output.indices) = Len(ranked)
        /\ Len(output.filtered) = Len(ranked)
        /\ \A k \in 1..Len(ranked) : \A j \in 1..Len(output.indices[k]) :
              output.indices[k][j] < Len(output.filtered[k])

\* C9 as amended: the two outputs have one entry per ranked row, in ranked
\* order (a row that was not shortened keeps its text and offsets); every
\* offset of a shortened row, and of a row scored by the fuzzy scorer, is an
\* index into the text returned for it; every offset of a row scored by
\* substr_scorer and not shortened is less than the byte length of the
\* lower-cased text.
C9_PositionsInsideLowercasedText ==
    Returned =>
        /\ Len(output.indices) = Len(ranked)
        /\ Len(output.filtered) = Len(ranked)
        /\ \A k \in 1..Len(ranked) :
              /\ ~Shortened(k) =>
                    /\ output.filtered[k] = ranked[k].line
                    /\ output.indices[k] = ranked[k].indices
              /\ \A j \in 1..Len(output.indices[k]) :
                    IF Shortened(k) \/ matcher = "fzy"
                    THEN output.indices[k][j] < Len(output.filtered[k])
                    ELSE output.indices[k][j] < Len(to_lowercase(output.filtered[k]))

\* Icons enabled: an unshortened row with a shifted offset on its last byte,
\* after a row that has offsets too.
C9_WitnessOffsetOnLastByte ==
    /\ Returned /\ enable_icon /\ matcher = "fzy"
    /\ Len(ranked) = 2
    /\ ~Shortened(2)
    /\ output.indices[1] # << >>
    /\ \E j \in 1..Len(output.indices[2]) :
          output.indices[2][j] = Len(output.filtered[2]) - 1

NoTerms(q) == \A j \in 1..Len(q) : q[j] \in {32, 9}

\* Every candidate is among the ranked rows, and no row has an offset.
EveryCandidateNoOffsets ==
    /\ \A k \in 1..Len(calls) : calls[k].ret.some /\ calls[k].ret.positions = << >>
    /\ Len(ranked) = Len(candidates)
    /\ \A k \in 1..Len(candidates) :
          Count(candidates[k], candidates) =
              Cardinality({j \in 1..Len(ranked) : ranked[j].line = candidates[k]})
    /\ Len(output.indices) = Len(candidates)
    /\ \A k \in 1..Len(output.indices) : output.indices[k] = << >>

\* C10 as stated, without the value of the score: for a query with no terms,
\* empty or all whitespace, every candidate matches with no positions and is
\* in the ranked output with no offsets.
C10_NoTermsMatchesAll == (Returned /\ NoTerms(query)) => EveryCandidateNoOffsets

\* substr_scorer on every query without terms and every candidate of the call.
ScorerAcceptsNoTerms ==
    pc = "start" =>
        \A q \in StrsUpTo({CharSpace, CharTab}, MaxQueryLen) :
            \A k \in 1..Len(candidates) :
                substr_scorer(q, candidates[k]) =
                    [some |-> TRUE, score |-> FromInt(0), positions |-> << >>]

\* C10 as amended: substr_scorer returns score 0 and no positions for every
\* line when the query has no terms; fuzzy_match uses it when the query
\* contains a space character, and then every candidate is in the ranked output
\* with score 0 and no offsets.  (A query without a space character, the empty
\* one or a tab, goes to the external fuzzy scorer instead.)
C10_NoTermsWithSpaceMatchesAll ==
    /\ ScorerAcceptsNoTerms
    /\ (Returned /\ NoTerms(query) /\ \E j \in 1..Len(query) : query[j] = 32) =>
          /\ EveryCandidateNoOffsets
          /\ \A k \in 1..Len(calls) : calls[k].fn = "substr"
          /\ \A k \in 1..Len(ranked) : ranked[k].score = FromInt(0)

\* A query of one space and two candidates, both returned.
C10_WitnessSpaceQuery ==
    /\ Returned
    /\ query = <<32>>
    /\ Len(candidates) = 2 /\ Len(output.filtered) = 2
    /\ candidates[1] # candidates[2]

====
